---- MODULE Spec2Model ----
(***************************************************************************)
(* The msft_stock_price DAG of src/msft.py: four tasks (extract,           *)
(* return_last_90d_price, transform, load) run by the scheduler, the       *)
(* market-data API they call and the warehouse table load writes.          *)
(***************************************************************************)
EXTENDS Integers, Sequences, FiniteSets, Bags, TLC

-----------------------------------------------------------------------------
(* Bounds of the model *)

\* most date keys in one API response
MaxSeries == 2
\* instants per calendar day that datetime.today() can return (0 = midnight)
TicksPerDay == 2

(* Program constants *)

\* timedelta(days=90)
WindowDays == 90
\* default_args['retries']
Retries == 1

-----------------------------------------------------------------------------
(* Calendar: datetime.strptime(d, "%Y-%m-%d") and datetime arithmetic.     *)
(* A date key is the text YYYY-MM-DD, held as its three numeric fields; a  *)
(* datetime is a number of ticks since ordinal day 0.                      *)

IsLeap(y) == (y % 4 = 0) /\ ((y % 100 # 0) \/ (y % 400 = 0))

DaysInMonth(y, m) ==
    IF m = 2 THEN (IF IsLeap(y) THEN 29 ELSE 28)
    ELSE IF m \in {4, 6, 9, 11} THEN 30 ELSE 31

RECURSIVE DaysBeforeMonth(_, _)
DaysBeforeMonth(y, m) ==
    IF m <= 1 THEN 0 ELSE DaysBeforeMonth(y, m - 1) + DaysInMonth(y, m - 1)

DaysBeforeYear(y) ==
    (y - 1) * 365 + ((y - 1) \div 4) - ((y - 1) \div 100) + ((y - 1) \div 400)

\* strptime raises ValueError unless the fields name a day of the calendar
ValidDate(d) ==
    /\ d.y >= 1
    /\ d.m \in 1..12
    /\ d.d \in 1..DaysInMonth(d.y, d.m)

Ordinal(d) == DaysBeforeYear(d.y) + DaysBeforeMonth(d.y, d.m) + d.d

\* the datetime strptime returns: midnight of the day
strptime(d) == Ordinal(d) * TicksPerDay

Key(y, m, d) == [y |-> y, m |-> m, d |-> d]

\* the days datetime.today() falls on
RefDates == {Key(2024, 4, 10)}

\* the values datetime.today() can return
RefTimes == {Ordinal(r) * TicksPerDay + t : r \in RefDates, t \in 0..(TicksPerDay - 1)}

\* ninety_days_ago = datetime.today() - timedelta(days=90)
NinetyDaysAgo(today) == today - WindowDays * TicksPerDay

-----------------------------------------------------------------------------
(* The API's responses *)

\* date keys the API can return
KeyPool == {Key(2024, 1, 10), Key(2024, 1, 11), Key(2024, 4, 10), Key(2024, 2, 30)}

\* strings that parse as a number
NumericStrings == {"10", "12", "9", "11", "1000"}

IsNumeric(s) == s \in NumericStrings

GoodBar == [open |-> "10", high |-> "12", low |-> "9", close |-> "11", volume |-> "1000"]

BadBar == [open |-> "abc", high |-> "12", low |-> "9", close |-> "11", volume |-> "1000"]

\* the objects the API can return under one date key
BarPool == {GoodBar, BadBar}

Fields == {"open", "high", "low", "close", "volume"}

Entries == [key : KeyPool, bar : BarPool]

\* "Time Series (Daily)": a JSON object, so a dict in the order of the response
\* with no key twice
SeriesSet ==
    UNION {{s \in [1..n -> Entries] : \A i, j \in 1..n : i # j => s[i].key # s[j].key}
           : n \in 0..MaxSeries}

\* what requests.get() yields: it raises ("network"), or returns a response with a
\* status and a body that is JSON holding a series (none is the empty series) or not
Responses ==
    {[net |-> "raise", status |-> 0, json |-> FALSE, series |-> <<>>]}
    \cup [net : {"ok"}, status : {200, 500}, json : {FALSE}, series : {<<>>}]
    \cup [net : {"ok"}, status : {200, 500}, json : {TRUE}, series : SeriesSet]

\* the call is a failure of the API: no response, or a non-2xx one
ApiFailed(resp) == resp.net = "raise" \/ resp.status \notin 200..299

-----------------------------------------------------------------------------
(* State *)

\* DAG runs: the DAG sets no max_active_runs, so runs can overlap
Runs == {1, 2}

Tasks == {"extract", "filter", "transform", "load"}

VARIABLES
    active,       \* the DAG runs the scheduler has created
    autocommit,   \* the AUTOCOMMIT parameter of the sessions hook.get_conn() opens
    tblExists,    \* stock.msft.stock_price exists
    tblRows,      \* its committed rows, a bag
    tblGen,       \* how many times the table has been created
    ts,           \* ts[run][task]: the task instance's state
    tries,        \* tries[run][task]: attempts started
    fetchFailed,  \* fetchFailed[run]: an API call of the run failed
    fl,           \* fl[run]: locals of the last attempt of return_last_90d_price
    xcom,         \* xcom[run][task]: the task's return value
    ld,           \* ld[run]: locals and position of the current attempt of load
    leaks         \* leaks[run]: connections load left open when it exited

vars == <<active, autocommit, tblExists, tblRows, tblGen, ts, tries,
          fetchFailed, fl, xcom, ld, leaks>>

warehouse == <<autocommit, tblExists, tblRows, tblGen>>

\* a row of the table before any run: history older than the window
PriorRow == [date |-> Key(2023, 12, 1), symbol |-> "MSFT", open |-> 9, high |-> 9,
             low |-> 9, close |-> 9, volume |-> 9]

NoFrame == [data |-> <<>>, today |-> 0, err |-> "unset"]

NoLoad == [pc |-> "idle", records |-> <<>>, conn |-> "none", cur |-> "none",
           idx |-> 0, pending |-> <<>>, exc |-> FALSE, msg |-> "none",
           creates |-> 0, inserts |-> <<>>, failed |-> "none", failedAt |-> 0,
           preExists |-> FALSE, preRows |-> EmptyBag]

InitWarehouse ==
    /\ autocommit \in BOOLEAN
    /\ tblGen = 0
    /\ \/ tblExists = FALSE /\ tblRows = EmptyBag
       \/ tblExists = TRUE /\ tblRows = SetToBag({PriorRow})

Init ==
    /\ active = {1}
    /\ InitWarehouse
    /\ ts = [r \in Runs |-> [t \in Tasks |-> IF r = 1 THEN "scheduled" ELSE "none"]]
    /\ tries = [r \in Runs |-> [t \in Tasks |-> 0]]
    /\ fetchFailed = [r \in Runs |-> FALSE]
    /\ fl = [r \in Runs |-> NoFrame]
    /\ xcom = [r \in Runs |-> [t \in Tasks |-> <<>>]]
    /\ ld = [r \in Runs |-> NoLoad]
    /\ leaks = [r \in Runs |-> 0]

-----------------------------------------------------------------------------
(* The scheduler: task states, retries, dependencies *)

\* a task instance can start: it is queued and its upstream tasks succeeded
Runnable(self, t) ==
    /\ self \in active
    /\ ts[self][t] = "scheduled"
    /\ t = "transform" => ts[self]["filter"] = "success"
    /\ t = "load" => ts[self]["transform"] = "success"

\* the state of a task instance whose attempt number n raised
Raised(n) == IF n <= Retries THEN "up_for_retry" ELSE "failed"

\* the scheduler queues a failed attempt again; the attempt's process is gone
requeue(self, t) ==
    /\ self \in active
    /\ ts[self][t] = "up_for_retry"
    /\ ts' = [ts EXCEPT ![self][t] = "scheduled"]
    /\ fl' = IF t = "filter" THEN [fl EXCEPT ![self] = NoFrame] ELSE fl
    /\ ld' = IF t = "load" THEN [ld EXCEPT ![self] = NoLoad] ELSE ld
    /\ UNCHANGED <<active, warehouse, tries, fetchFailed, xcom, leaks>>

-----------------------------------------------------------------------------
(* extract *)

\* extract's return value is read by no task (stock_data is unused), so one JSON
\* body stands for every series
ExtractResponses == {r \in Responses : r.series = <<>>}

extract(self) ==
    /\ Runnable(self, "extract")
    /\ \E resp \in ExtractResponses :
        LET n == tries[self]["extract"] + 1
            raises == resp.net = "raise" \/ ~resp.json
        IN  /\ tries' = [tries EXCEPT ![self]["extract"] = n]
            /\ fetchFailed' = [fetchFailed EXCEPT ![self] = @ \/ ApiFailed(resp)]
            /\ ts' = [ts EXCEPT ![self]["extract"] =
                        IF raises THEN Raised(n) ELSE "success"]
    /\ UNCHANGED <<active, warehouse, fl, xcom, ld, leaks>>

-----------------------------------------------------------------------------
(* return_last_90d_price *)

PriceData(e, symbol) ==
    [date |-> e.key, open |-> e.bar.open, high |-> e.bar.high, low |-> e.bar.low,
     close |-> e.bar.close, volume |-> e.bar.volume, symbol |-> symbol]

\* the loop over the series from entry i on, when no strptime raises
RECURSIVE FilterFrom(_, _, _, _)
FilterFrom(series, i, nda, symbol) ==
    IF i > Len(series) THEN <<>>
    ELSE LET rest == FilterFrom(series, i + 1, nda, symbol)
         IN  IF strptime(series[i].key) >= nda
             THEN <<PriceData(series[i], symbol)>> \o rest
             ELSE rest

\* strptime raises ValueError on some key of the series
StrptimeRaises(series) == \E i \in 1..Len(series) : ~ValidDate(series[i].key)

return_last_90d_price(self) ==
    /\ Runnable(self, "filter")
    /\ \E resp \in Responses, today \in RefTimes :
        LET n == tries[self]["filter"] + 1
            err == IF resp.net = "raise" THEN "ConnectionError"
                   ELSE IF ~resp.json THEN "JSONDecodeError"
                   ELSE IF StrptimeRaises(resp.series) THEN "ValueError"
                   ELSE "none"
            read == resp.net = "ok" /\ resp.json
        IN  /\ tries' = [tries EXCEPT ![self]["filter"] = n]
            /\ fetchFailed' = [fetchFailed EXCEPT ![self] = @ \/ ApiFailed(resp)]
            /\ fl' = [fl EXCEPT ![self] =
                        [data |-> resp.series,
                         today |-> IF read THEN today ELSE 0,
                         err |-> err]]
            /\ IF err = "none"
               THEN /\ ts' = [ts EXCEPT ![self]["filter"] = "success"]
                    /\ xcom' = [xcom EXCEPT ![self]["filter"] =
                                  FilterFrom(resp.series, 1, NinetyDaysAgo(today), "MSFT")]
               ELSE /\ ts' = [ts EXCEPT ![self]["filter"] = Raised(n)]
                    /\ xcom' = xcom
    /\ UNCHANGED <<active, warehouse, ld, leaks>>

-----------------------------------------------------------------------------
(* transform *)

\* processed_data: every entry of stock_data appended in turn
RECURSIVE AppendAll(_, _, _)
AppendAll(processed, stock_data, i) ==
    IF i > Len(stock_data) THEN processed
    ELSE AppendAll(Append(processed, stock_data[i]), stock_data, i + 1)

transform(self) ==
    /\ Runnable(self, "transform")
    /\ tries' = [tries EXCEPT ![self]["transform"] = @ + 1]
    /\ xcom' = [xcom EXCEPT ![self]["transform"] =
                  AppendAll(<<>>, xcom[self]["filter"], 1)]
    /\ ts' = [ts EXCEPT ![self]["transform"] = "success"]
    \* the process that ran the upstream task has exited
    /\ fl' = [fl EXCEPT ![self] = NoFrame]
    /\ UNCHANGED <<active, warehouse, fetchFailed, ld, leaks>>

-----------------------------------------------------------------------------
(* The warehouse: what the statements load sends do to the table *)

\* the number a numeric string is written for
Num(s) ==
    CASE s = "9" -> 9 [] s = "10" -> 10 [] s = "11" -> 11 [] s = "12" -> 12
      [] s = "1000" -> 1000

\* the INSERT built for r compiles: every interpolated value is a number
SqlValid(r) == \A f \in Fields : IsNumeric(r[f])

\* the row the INSERT built for r adds
Row(r) ==
    [date |-> r.date, symbol |-> r.symbol, open |-> Num(r.open), high |-> Num(r.high),
     low |-> Num(r.low), close |-> Num(r.close), volume |-> Num(r.volume)]

RECURSIVE BagOfSeq(_)
BagOfSeq(s) == IF s = <<>> THEN EmptyBag ELSE SetToBag({Head(s)}) (+) BagOfSeq(Tail(s))

\* the rows of a transaction's staged inserts that belong to table generation g
RECURSIVE StagedRows(_, _)
StagedRows(pending, g) ==
    IF pending = <<>> THEN <<>>
    ELSE IF Head(pending).gen = g
         THEN <<Head(pending).row>> \o StagedRows(Tail(pending), g)
         ELSE StagedRows(Tail(pending), g)

\* CREATE TABLE IF NOT EXISTS in place of CREATE OR REPLACE TABLE
CreateIfNotExists(rows) == rows

\* CREATE OR REPLACE TABLE: the rows the new table holds, given the old ones
CreateOrReplace(rows) == EmptyBag

-----------------------------------------------------------------------------
(* load *)

\* what every exit of load by an exception does to the task instance
LoadRaises(self) == [ts EXCEPT ![self]["load"] = Raised(tries[self]["load"])]

\* load without the check of lines 95-97
load_entry_unchecked(self) ==
    /\ Runnable(self, "load")
    /\ ld' = [ld EXCEPT ![self] =
                [NoLoad EXCEPT !.records = xcom[self]["transform"],
                               !.preExists = tblExists, !.preRows = tblRows,
                               !.pc = "get_conn"]]
    /\ ts' = [ts EXCEPT ![self]["load"] = "running"]
    /\ tries' = [tries EXCEPT ![self]["load"] = @ + 1]
    /\ UNCHANGED <<active, warehouse, fetchFailed, fl, xcom, leaks>>

\* lines 93-97: the call, and the return when records is empty
load_entry(self) ==
    /\ Runnable(self, "load")
    /\ LET records == xcom[self]["transform"]
           frame == [NoLoad EXCEPT !.records = records,
                                   !.preExists = tblExists, !.preRows = tblRows]
       IN  IF records = <<>>
           THEN /\ ld' = [ld EXCEPT ![self] =
                            [frame EXCEPT !.pc = "returned", !.msg = "No records to load."]]
                /\ ts' = [ts EXCEPT ![self]["load"] = "success"]
           ELSE /\ ld' = [ld EXCEPT ![self] = [frame EXCEPT !.pc = "get_conn"]]
                /\ ts' = [ts EXCEPT ![self]["load"] = "running"]
    /\ tries' = [tries EXCEPT ![self]["load"] = @ + 1]
    /\ UNCHANGED <<active, warehouse, fetchFailed, fl, xcom, leaks>>

\* lines 100-101: conn = hook.get_conn()
load_get_conn(self) ==
    /\ self \in active
    /\ ld[self].pc = "get_conn"
    /\ \E ok \in BOOLEAN :
        IF ok
        THEN /\ ld' = [ld EXCEPT ![self].conn = "open", ![self].pc = "cursor"]
             /\ ts' = ts
        ELSE /\ ld' = [ld EXCEPT ![self].exc = TRUE, ![self].pc = "returned"]
             /\ ts' = LoadRaises(self)
    /\ UNCHANGED <<active, warehouse, tries, fetchFailed, fl, xcom, leaks>>

\* line 102: cur = conn.cursor(), before the try
load_cursor(self) ==
    /\ self \in active
    /\ ld[self].pc = "cursor"
    /\ \E ok \in BOOLEAN :
        IF ok
        THEN /\ ld' = [ld EXCEPT ![self].cur = "open", ![self].pc = "create"]
             /\ UNCHANGED <<ts, leaks>>
        ELSE /\ ld' = [ld EXCEPT ![self].exc = TRUE, ![self].pc = "returned"]
             /\ ts' = LoadRaises(self)
             /\ leaks' = [leaks EXCEPT ![self] = @ + 1]
    /\ UNCHANGED <<active, warehouse, tries, fetchFailed, fl, xcom>>

\* a run is inside its try block, past its CREATE OR REPLACE
InTransaction(r) == ld[r].pc \in {"insert", "commit", "rollback"}

\* load_create held back while another run is past its own CREATE OR REPLACE
load_create_locked(self) ==
    /\ self \in active
    /\ ld[self].pc = "create"
    /\ \A r \in Runs \ {self} : ~InTransaction(r)
    /\ \E ok \in BOOLEAN :
        IF ok
        THEN /\ tblExists' = TRUE
             /\ tblRows' = CreateOrReplace(tblRows)
             /\ tblGen' = tblGen + 1
             /\ ld' = [ld EXCEPT ![self].creates = @ + 1, ![self].idx = 1,
                                 ![self].pc = IF Len(ld[self].records) = 0
                                              THEN "commit" ELSE "insert"]
        ELSE /\ ld' = [ld EXCEPT ![self].creates = @ + 1, ![self].failed = "create",
                                 ![self].pc = "rollback"]
             /\ UNCHANGED <<tblExists, tblRows, tblGen>>
    /\ UNCHANGED <<active, autocommit, ts, tries, fetchFailed, fl, xcom, leaks>>

\* lines 109-119: CREATE OR REPLACE TABLE, a DDL statement: it commits on its own
load_create(self) ==
    /\ self \in active
    /\ ld[self].pc = "create"
    /\ \E ok \in BOOLEAN :
        IF ok
        THEN /\ tblExists' = TRUE
             /\ tblRows' = CreateOrReplace(tblRows)
             /\ tblGen' = tblGen + 1
             /\ ld' = [ld EXCEPT ![self].creates = @ + 1, ![self].idx = 1,
                                 ![self].pc = IF Len(ld[self].records) = 0
                                              THEN "commit" ELSE "insert"]
        ELSE /\ ld' = [ld EXCEPT ![self].creates = @ + 1, ![self].failed = "create",
                                 ![self].pc = "rollback"]
             /\ UNCHANGED <<tblExists, tblRows, tblGen>>
    /\ UNCHANGED <<active, autocommit, ts, tries, fetchFailed, fl, xcom, leaks>>

\* lines 122-138: one turn of the loop, the INSERT of records[idx]
load_insert(self) ==
    /\ self \in active
    /\ ld[self].pc = "insert"
    /\ LET l == ld[self]
           r == l.records[l.idx]
       IN  \E ok \in BOOLEAN :
            IF ok /\ SqlValid(r)
            THEN /\ IF autocommit
                    THEN /\ tblRows' = tblRows (+) SetToBag({Row(r)})
                         /\ ld' = [ld EXCEPT ![self].inserts = Append(@, r),
                                             ![self].idx = @ + 1,
                                             ![self].pc = IF l.idx = Len(l.records)
                                                          THEN "commit" ELSE "insert"]
                    ELSE /\ tblRows' = tblRows
                         /\ ld' = [ld EXCEPT ![self].inserts = Append(@, r),
                                             ![self].pending =
                                                 Append(@, [row |-> Row(r), gen |-> tblGen]),
                                             ![self].idx = @ + 1,
                                             ![self].pc = IF l.idx = Len(l.records)
                                                          THEN "commit" ELSE "insert"]
            ELSE /\ tblRows' = tblRows
                 /\ ld' = [ld EXCEPT ![self].inserts = Append(@, r),
                                     ![self].failed = "insert",
                                     ![self].failedAt = l.idx,
                                     ![self].pc = "rollback"]
    /\ UNCHANGED <<active, autocommit, tblExists, tblGen, ts, tries, fetchFailed,
                   fl, xcom, leaks>>

\* lines 140-141: conn.commit() and the message
load_commit(self) ==
    /\ self \in active
    /\ ld[self].pc = "commit"
    /\ \E ok \in BOOLEAN :
        IF ok
        THEN /\ tblRows' = tblRows (+) BagOfSeq(StagedRows(ld[self].pending, tblGen))
             /\ ld' = [ld EXCEPT ![self].pending = <<>>,
                                 ![self].msg = "Successfully loaded",
                                 ![self].pc = "cur_close"]
        ELSE /\ tblRows' = tblRows
             /\ ld' = [ld EXCEPT ![self].failed = "commit", ![self].pc = "rollback"]
    /\ UNCHANGED <<active, autocommit, tblExists, tblGen, ts, tries, fetchFailed,
                   fl, xcom, leaks>>

\* lines 143-145: except Exception: conn.rollback() and the message
load_rollback(self) ==
    /\ self \in active
    /\ ld[self].pc = "rollback"
    /\ \E ok \in BOOLEAN :
        IF ok
        THEN ld' = [ld EXCEPT ![self].pending = <<>>,
                              ![self].msg = "Error loading data",
                              ![self].pc = "cur_close"]
        ELSE ld' = [ld EXCEPT ![self].exc = TRUE, ![self].pc = "cur_close"]
    /\ UNCHANGED <<active, warehouse, ts, tries, fetchFailed, fl, xcom, leaks>>

\* lines 146-147: finally: cur.close()
load_cur_close(self) ==
    /\ self \in active
    /\ ld[self].pc = "cur_close"
    /\ \E ok \in BOOLEAN :
        IF ok
        THEN /\ ld' = [ld EXCEPT ![self].cur = "closed", ![self].pc = "conn_close"]
             /\ UNCHANGED <<ts, leaks>>
        ELSE /\ ld' = [ld EXCEPT ![self].exc = TRUE, ![self].pc = "returned"]
             /\ ts' = LoadRaises(self)
             /\ leaks' = [leaks EXCEPT ![self] = @ + 1]
    /\ UNCHANGED <<active, warehouse, tries, fetchFailed, fl, xcom>>

\* line 148: conn.close(), which ends the session and with it any open transaction;
\* then load returns, or the pending exception leaves it
load_conn_close(self) ==
    /\ self \in active
    /\ ld[self].pc = "conn_close"
    /\ \E ok \in BOOLEAN :
        IF ok
        THEN /\ ld' = [ld EXCEPT ![self].conn = "closed", ![self].pending = <<>>,
                                 ![self].pc = "returned"]
             /\ ts' = IF ld[self].exc THEN LoadRaises(self)
                      ELSE [ts EXCEPT ![self]["load"] = "success"]
             /\ leaks' = leaks
        ELSE /\ ld' = [ld EXCEPT ![self].exc = TRUE, ![self].pc = "returned"]
             /\ ts' = LoadRaises(self)
             /\ leaks' = [leaks EXCEPT ![self] = @ + 1]
    /\ UNCHANGED <<active, warehouse, tries, fetchFailed, fl, xcom>>

load(self) ==
    \/ load_entry(self)
    \/ load_get_conn(self)
    \/ load_cursor(self)
    \/ load_create(self)
    \/ load_insert(self)
    \/ load_commit(self)
    \/ load_rollback(self)
    \/ load_cur_close(self)
    \/ load_conn_close(self)

-----------------------------------------------------------------------------
(* One DAG run *)

Next ==
    \E self \in Runs :
        \/ extract(self)
        \/ return_last_90d_price(self)
        \/ transform(self)
        \/ load(self)
        \/ \E t \in Tasks : requeue(self, t)

Spec == Init /\ [][Next]_vars

-----------------------------------------------------------------------------
(* Overlapping runs: two runs whose load tasks are queued at the same time *)

RecA == PriceData([key |-> Key(2024, 1, 11), bar |-> GoodBar], "MSFT")

RecB == PriceData([key |-> Key(2024, 4, 10), bar |-> GoodBar], "MSFT")

DoneUpstream == [t \in Tasks |-> IF t = "load" THEN "scheduled" ELSE "success"]

InitConc ==
    /\ active = {1, 2}
    /\ autocommit \in BOOLEAN
    /\ tblGen = 1
    /\ tblExists = TRUE
    /\ tblRows = SetToBag({PriorRow})
    /\ ts = [r \in Runs |-> DoneUpstream]
    /\ tries = [r \in Runs |-> [t \in Tasks |-> IF t = "load" THEN 0 ELSE 1]]
    /\ fetchFailed = [r \in Runs |-> FALSE]
    /\ fl = [r \in Runs |-> NoFrame]
    /\ \E b1 \in {<<>>, <<RecA>>}, b2 \in {<<RecB>>} :
         xcom = [r \in Runs |-> [t \in Tasks |->
                    IF t \in {"filter", "transform"}
                    THEN (IF r = 1 THEN b1 ELSE b2) ELSE <<>>]]
    /\ ld = [r \in Runs |-> NoLoad]
    /\ leaks = [r \in Runs |-> 0]

NextConc ==
    \E self \in Runs :
        \/ load(self)
        \/ requeue(self, "load")

SpecConc == InitConc /\ [][NextConc]_vars

-----------------------------------------------------------------------------
(* Properties *)

Returned(self) == self \in active /\ ld[self].pc = "returned"

TableAsBefore(self) == tblExists = ld[self].preExists /\ tblRows = ld[self].preRows

\* the rows a batch of records stands for
RowsOf(records) == {Row(records[i]) : i \in 1..Len(records)}

\* C1: when the insert of record k of a batch fails inside load, the table is, after
\* load has returned, what it was when load was called: it exists as before and
\* holds the same rows, none of them a row of the batch.
C1_AllOrNothing ==
    \A self \in Runs :
        (Returned(self) /\ ld[self].failed = "insert") => TableAsBefore(self)

\* the day of a datetime
DayOf(t) == t \div TicksPerDay

\* the date keys of a series that lie in [R - 90 days, R] as calendar days
InWindow(series, today) ==
    {series[i].key : i \in {j \in 1..Len(series) :
        /\ ValidDate(series[j].key)
        /\ Ordinal(series[j].key) >= DayOf(today) - WindowDays
        /\ Ordinal(series[j].key) <= DayOf(today)}}

DatesOf(bars) == {bars[i].date : i \in 1..Len(bars)}

\* C2: the filter stage emits exactly one bar for every date key d of the series with
\* R - 90 days <= d <= R, compared as calendar days whatever the time of day of R,
\* and no other bar.
C2_WindowExact ==
    \A self \in Runs :
        (ts[self]["filter"] = "success" /\ fl[self].err = "none") =>
            /\ DatesOf(xcom[self]["filter"]) = InWindow(fl[self].data, fl[self].today)
            /\ Len(xcom[self]["filter"]) =
                   Cardinality(InWindow(fl[self].data, fl[self].today))

\* C3: when the table creation or an insert fails inside load, load ends in a
\* failure that reaches the scheduler: the task instance does not end as a success.
C3_FailureSurfaced ==
    \A self \in Runs :
        (Returned(self) /\ ld[self].failed \in {"create", "insert"}) =>
            ts[self]["load"] \in {"up_for_retry", "failed"}

\* C4: whenever load has returned, by any exit, the connection and the cursor it
\* obtained are released: no attempt has left a connection open.
C4_Released ==
    \A self \in Runs :
        Returned(self) =>
            /\ leaks[self] = 0
            /\ ld[self].conn # "open"
            /\ ld[self].cur # "open"

\* C5: in a run with a failed API call (no response, or a non-2xx one) neither
\* transform nor load is invoked, and the table is not touched.
C5_NoDownstreamAfterFetchFailure ==
    \A self \in Runs :
        fetchFailed[self] =>
            /\ tries[self]["transform"] = 0
            /\ tries[self]["load"] = 0
            /\ tblGen = 0

\* C6: load of an empty batch acquires no connection and no cursor, sends no CREATE
\* and no INSERT, leaves the table's existence and rows as they were, and ends as a
\* success whose message is that there was nothing to load.
C6_EmptyLoadNoOp ==
    \A self \in Runs :
        (Returned(self) /\ ld[self].records = <<>>) =>
            /\ ld[self].conn = "none"
            /\ ld[self].cur = "none"
            /\ ld[self].creates = 0
            /\ ld[self].inserts = <<>>
            /\ TableAsBefore(self)
            /\ ts[self]["load"] = "success"
            /\ ld[self].msg = "No records to load."

\* an empty batch was loaded while the table held history
C6_Witness ==
    /\ Returned(1)
    /\ ld[1].records = <<>>
    /\ ts[1]["load"] = "success"
    /\ tblRows = SetToBag({PriorRow})

\* the entries of a series whose key is a date
RECURSIVE ValidEntries(_)
ValidEntries(series) ==
    IF series = <<>> THEN <<>>
    ELSE IF ValidDate(Head(series).key)
         THEN <<Head(series)>> \o ValidEntries(Tail(series))
         ELSE ValidEntries(Tail(series))

HasInvalidKey(series) == \E i \in 1..Len(series) : ~ValidDate(series[i].key)

\* C7: a series with a date key that is no valid date does not fail the filter
\* stage: the key is skipped and the stage emits the bars of the remaining keys
\* that qualify.
C7_LenientDates ==
    \A self \in Runs :
        (fl[self].err \in {"none", "ValueError"} /\ HasInvalidKey(fl[self].data)) =>
            /\ ts[self]["filter"] = "success"
            /\ xcom[self]["filter"] =
                   FilterFrom(ValidEntries(fl[self].data), 1,
                              NinetyDaysAgo(fl[self].today), "MSFT")

AllNumeric(records) == \A i \in 1..Len(records) : SqlValid(records[i])

\* C8: transform does not succeed on a bar with a non-numeric price or volume
\* field, so no such record is handed to load or appears in an INSERT.
C8_TransformRejects ==
    \A self \in Runs :
        /\ (ts[self]["transform"] = "success" => AllNumeric(xcom[self]["filter"]))
        /\ AllNumeric(xcom[self]["transform"])
        /\ AllNumeric(ld[self].records)
        /\ AllNumeric(ld[self].inserts)

C10_NoMutualExclusion ==
    \A r1 \in Runs : \A r2 \in Runs \ {r1} :
        (InTransaction(r1) /\ ld[r2].pc = "create") => ENABLED load_create(r2)

\* both runs committed their batch after one's CREATE OR REPLACE ran between the
\* other's creation and commit, and the table is the batch of neither
C10_Witness ==
    /\ \A r \in Runs : Returned(r) /\ ld[r].msg = "Successfully loaded"
                       /\ ts[r]["load"] = "success"
    /\ tblGen = 3
    /\ \A r \in Runs : tblRows # SetToBag(RowsOf(ld[r].records))

====
